---------------------------- MODULE Spec2Model ----------------------------
(***************************************************************************)
(* A model of src/main.cpp: the posit/float matrix benchmark.              *)
(*                                                                         *)
(* benchmark(r, c, repetitions, numa, numb) is modelled statement by       *)
(* statement (one action per statement or statement group, `pc' is the     *)
(* position inside the call), main() as the driver of the sweep.           *)
(*                                                                         *)
(* Two specifications share the actions of benchmark:                      *)
(*   Spec      a single call of benchmark on arguments drawn from small    *)
(*             sets (any shape, any repetition count, finite and           *)
(*             non-finite fill values), built with or without NDEBUG;      *)
(*   SpecMain  the program: main() with its compiled-in sizes, repetition  *)
(*             count and fill values, for every combination of the         *)
(*             vectorization macros the matrix library can define.         *)
(*                                                                         *)
(* The matrix library and the posit library are not part of the            *)
(* repository; they are modelled by their documented contracts:            *)
(*   - fill, +, -, *, cwiseAbs, mean, allFinite, cast are element-wise /   *)
(*     row-by-column as in linear algebra;                                 *)
(*   - `auto x = a * b' (and a + b, a - b) builds an expression object     *)
(*     that refers to its operands; the arithmetic is done when the        *)
(*     expression is assigned to a matrix or when one of its coefficients  *)
(*     or reductions is read;                                              *)
(*   - a product needs lhs.cols() = rhs.rows(); the library asserts it     *)
(*     when the product expression is built, and the assertion is compiled *)
(*     out under NDEBUG, after which the product is undefined;             *)
(*   - a posit has one non-real value (NaR) and saturates instead of       *)
(*     overflowing.                                                        *)
(***************************************************************************)
EXTENDS Integers, Sequences, FiniteSets, TLC

(***************************************************************************)
(* Bounds of the single-call specification.                                *)
(***************************************************************************)
MaxDim == 2         \* rows, cols range over 1..MaxDim
MaxReps == 2        \* repetitions ranges over -1..MaxReps
MaxFill == 2        \* finite fill values range over 0..MaxFill
MaxGarbage == 1     \* an indeterminate duration reads as 0..MaxGarbage
MaxDuration == 2    \* a measured duration ranges over 1..MaxDuration

(***************************************************************************)
(* Constants of main().                                                    *)
(***************************************************************************)
SweepFirst == 10
SweepLast == 50
SweepStep == 10
SweepReps == 5

(***************************************************************************)
(* Scalars.  A scalar of any precision is a record [k, v]:                 *)
(*   "num"  an integer v, held exactly;                                    *)
(*   "fin"  a finite value whose digits the model does not track           *)
(*          (a non-integer literal, a rounded result, a quotient);         *)
(*   "inf"  an IEEE infinity of sign v;   "nan"  an IEEE NaN;              *)
(*   "nar"  the posit NaR.                                                 *)
(***************************************************************************)
Num(n) == [k |-> "num", v |-> n]
Fin == [k |-> "fin", v |-> 0]
PInf == [k |-> "inf", v |-> 1]
NInf == [k |-> "inf", v |-> 0 - 1]
NaN == [k |-> "nan", v |-> 0]
NaR == [k |-> "nar", v |-> 0]

AbsInt(n) == IF n < 0 THEN 0 - n ELSE n
SignInt(n) == IF n < 0 THEN 0 - 1 ELSE IF n = 0 THEN 0 ELSE 1

IsFiniteScalar(x) == x.k \in {"num", "fin"}

\* Integers up to 2^24 are exact in float, up to 2^20 in posit32 (es = 2),
\* up to 2^30 (and beyond) in double; a larger one is rounded.
RoundTo(n, exact) == IF AbsInt(n) <= exact THEN Num(n) ELSE Fin
FloatExact == 2^24
PositExact == 2^20
DoubleExact == 2^30

\* float(x) of a double x  (src/main.cpp:73-74)
ToFloat(x) == IF x.k = "num" THEN RoundTo(x.v, FloatExact) ELSE x

\* p32(x) of a double x  (src/main.cpp:71-72): infinities and NaN become NaR
ToP32(x) ==
    IF x.k = "num" THEN RoundTo(x.v, PositExact)
    ELSE IF x.k \in {"inf", "nan"} THEN NaR
    ELSE x

\* posit32::toDouble()  (src/main.cpp:104): NaR has no real value
P32ToDouble(x) == IF x.k = "nar" THEN NaN ELSE x

\* float -> double, fmul.cast<double>()  (src/main.cpp:118): exact
FloatToDouble(x) == x

\* IEEE multiplication, the result rounded to a precision holding integers
\* up to `exact' exactly.
IeeeMul(x, y, exact) ==
    IF x.k = "nan" \/ y.k = "nan" THEN NaN
    ELSE IF x.k = "inf" \/ y.k = "inf" THEN
        IF (x.k = "num" /\ x.v = 0) \/ (y.k = "num" /\ y.v = 0) THEN NaN
        ELSE IF x.k = "fin" \/ y.k = "fin" THEN NaN
        ELSE [k |-> "inf", v |-> SignInt(x.v) * SignInt(y.v)]
    ELSE IF x.k = "num" /\ y.k = "num" THEN RoundTo(x.v * y.v, exact)
    ELSE Fin

\* IEEE addition.
IeeeAdd(x, y, exact) ==
    IF x.k = "nan" \/ y.k = "nan" THEN NaN
    ELSE IF x.k = "inf" /\ y.k = "inf" THEN (IF x.v = y.v THEN x ELSE NaN)
    ELSE IF x.k = "inf" THEN x
    ELSE IF y.k = "inf" THEN y
    ELSE IF x.k = "num" /\ y.k = "num" THEN RoundTo(x.v + y.v, exact)
    ELSE Fin

IeeeNeg(x) ==
    IF x.k = "num" THEN Num(0 - x.v)
    ELSE IF x.k = "inf" THEN [k |-> "inf", v |-> 0 - x.v]
    ELSE x

IeeeSub(x, y, exact) == IeeeAdd(x, IeeeNeg(y), exact)

IeeeAbs(x) ==
    IF x.k = "num" THEN Num(AbsInt(x.v))
    ELSE IF x.k = "inf" THEN PInf
    ELSE x

\* x / n of a double x by an integer n converted to double.
IeeeDivInt(x, n) ==
    IF x.k = "nan" THEN NaN
    ELSE IF x.k = "inf" THEN
        (IF n = 0 THEN x ELSE [k |-> "inf", v |-> x.v * SignInt(n)])
    ELSE IF n = 0 THEN
        (IF x.k = "num" /\ x.v = 0 THEN NaN
         ELSE IF x.k = "num" THEN [k |-> "inf", v |-> SignInt(x.v)]
         ELSE PInf)
    ELSE IF x.k = "num" /\ x.v % AbsInt(n) = 0
        THEN Num(SignInt(n) * (x.v \div AbsInt(n)))
    ELSE Fin

\* Posit arithmetic: NaR is absorbing, everything else stays real.
PositMul(x, y) ==
    IF x.k = "nar" \/ y.k = "nar" THEN NaR
    ELSE IF x.k = "num" /\ y.k = "num" THEN RoundTo(x.v * y.v, PositExact)
    ELSE Fin

PositAdd(x, y) ==
    IF x.k = "nar" \/ y.k = "nar" THEN NaR
    ELSE IF x.k = "num" /\ y.k = "num" THEN RoundTo(x.v + y.v, PositExact)
    ELSE Fin

\* The arithmetic of each scalar type: "p" posit32, "f" float, "d" double.
Mul(t, x, y) ==
    IF t = "p" THEN PositMul(x, y)
    ELSE IF t = "f" THEN IeeeMul(x, y, FloatExact)
    ELSE IeeeMul(x, y, DoubleExact)

Add(t, x, y) ==
    IF t = "p" THEN PositAdd(x, y)
    ELSE IF t = "f" THEN IeeeAdd(x, y, FloatExact)
    ELSE IeeeAdd(x, y, DoubleExact)

(***************************************************************************)
(* Matrices.  Every matrix the program builds is constant: fill() sets     *)
(* every coefficient to one value, and the coefficients of a sum, a        *)
(* difference, a product or a conversion of constant matrices are all      *)
(* computed from the same operands.  A matrix is therefore held as         *)
(* [rows, cols, coef]: its shape and the value of each of its              *)
(* coefficients.                                                           *)
(***************************************************************************)
NoMatrix == [rows |-> 0, cols |-> 0, coef |-> NaN]

\* Matrix<T, Dynamic, Dynamic> m(rows, cols); m.fill(x);  (src/main.cpp:62-76)
Filled(rows, cols, x) == [rows |-> rows, cols |-> cols, coef |-> x]

\* The sum of n terms of value x in the arithmetic of t, added pairwise (the
\* library's reductions fix no order of summation).
RECURSIVE SumTerms(_, _, _)
SumTerms(t, x, n) ==
    IF n <= 1 THEN x
    ELSE Add(t, SumTerms(t, x, n \div 2), SumTerms(t, x, n - (n \div 2)))

\* A coefficient of lhs * rhs: the dot product of a row of lhs and a column
\* of rhs, lhs.cols() terms.
Dot(t, A, B) == SumTerms(t, Mul(t, A.coef, B.coef), A.cols)

\* Whether lhs * rhs is defined.
Conformable(A, B) == A.cols = B.rows

\* Whether evaluating lhs * rhs stays inside rhs: a coefficient is the sum
\* of lhs.cols() terms, the n-th read from row n of rhs.
ReadsInside(A, B) == A.cols <= B.rows

\* The value of the product expression lhs * rhs when it is evaluated.  With
\* more columns in lhs than rows in rhs (reachable only when the library's
\* assertion is compiled out) the evaluation reads past the end of rhs and
\* its result is indeterminate: its coefficients are the value g the caller
\* draws.
EvalProduct(t, A, B, g) ==
    IF ReadsInside(A, B)
    THEN [rows |-> A.rows, cols |-> B.cols, coef |-> Dot(t, A, B)]
    ELSE Filled(A.rows, B.cols, g)

\* (A - B) in double precision  (src/main.cpp:117-118)
MatSub(A, B) ==
    [rows |-> A.rows, cols |-> A.cols,
     coef |-> IeeeSub(A.coef, B.coef, DoubleExact)]

\* .cwiseAbs()
CwiseAbs(A) == [rows |-> A.rows, cols |-> A.cols, coef |-> IeeeAbs(A.coef)]

\* Element-wise posit32 -> double  (src/main.cpp:100-106)
PositToDouble(A) == [rows |-> A.rows, cols |-> A.cols, coef |-> P32ToDouble(A.coef)]

\* .cast<double>() of a float matrix  (src/main.cpp:118)
CastDouble(A) == [rows |-> A.rows, cols |-> A.cols, coef |-> FloatToDouble(A.coef)]

\* The sum of n double coefficients of value x.
SumOf(x, n) == SumTerms("d", x, n)

\* .mean(): the sum of all coefficients (the sum of the columns' sums) over
\* their number
Mean(A) == IeeeDivInt(SumOf(SumOf(A.coef, A.rows), A.cols), A.rows * A.cols)

\* .allFinite(): no coefficient is an infinity, a NaN or NaR
AllFinite(A) == IsFiniteScalar(A.coef)

(***************************************************************************)
(* Durations.  duration<double, std::micro> is [indet, us, div]: the value *)
(* us / div microseconds, plus, when indet is TRUE, whatever the           *)
(* uninitialised object held when it was first read.  div = 0 is a         *)
(* division by zero.                                                       *)
(***************************************************************************)
\* duration<double, std::micro> d;  (src/main.cpp:78-79): the defaulted
\* constructor leaves the double representation uninitialised
DefaultDuration == [indet |-> TRUE, us |-> 0, div |-> 1]

\* d += x  (src/main.cpp:89, 96)
DurationAdd(d, x) == [d EXCEPT !.us = @ + x]

\* d /= n  (src/main.cpp:122-123)
DurationDiv(d, n) == [d EXCEPT !.div = @ * n]

\* What a timed interval can measure, in microseconds.
Durations == 1..MaxDuration

\* What an uninitialised duration can read as.
Indeterminate == 0..MaxGarbage

\* d.count() as printed  (src/main.cpp:129-130): g is what the
\* uninitialised object read as
Count(d, g) == [us |-> (IF d.indet THEN g ELSE 0) + d.us, div |-> d.div]

(***************************************************************************)
(* The build and the inputs.                                               *)
(***************************************************************************)
\* The sets of vectorization macros the matrix library defines: none (no
\* vector unit), SSE, AVX (which also keeps SSE defined), AVX-512 (which
\* keeps AVX and SSE), NEON, or a vector unit main() has no line for
\* (AltiVec, VSX, ...), which defines EIGEN_VECTORIZE alone.
Builds ==
    { {},
      {"EIGEN_VECTORIZE", "EIGEN_VECTORIZE_SSE"},
      {"EIGEN_VECTORIZE", "EIGEN_VECTORIZE_SSE", "EIGEN_VECTORIZE_AVX"},
      {"EIGEN_VECTORIZE", "EIGEN_VECTORIZE_SSE", "EIGEN_VECTORIZE_AVX",
       "EIGEN_VECTORIZE_AVX512"},
      {"EIGEN_VECTORIZE", "EIGEN_VECTORIZE_NEON"},
      {"EIGEN_VECTORIZE"} }

\* Fill values of the single-call specification.
FillValues == {Num(n) : n \in 0..MaxFill} \cup {PInf, NaN}

\* What a coefficient of an undefined product can read as.
GarbageValues == {Num(0), Num(1), NaN}

\* What an evaluation of lhs * rhs can draw: nothing to draw when it reads
\* inside its operands.
Garbage(A, B) == IF ReadsInside(A, B) THEN {Num(0)} ELSE GarbageValues

\* The value pairs of main()  (src/main.cpp:155-158).  1.0 and 2.0 are held
\* exactly; 1.00001, 0.99999, 1e-5, 2e-5 and 1e4 are finite values whose
\* products over at most 50 terms (at most 5e9 in magnitude) stay finite in
\* every precision.
SweepFills == << <<Num(1), Num(2)>>, <<Fin, Fin>>, <<Fin, Fin>>, <<Fin, Fin>> >>

(***************************************************************************)
(* Output lines: [kind, r, c].                                             *)
(***************************************************************************)
Line(kind) == [kind |-> kind, r |-> 0, c |-> 0]
SizedLine(kind, rows, cols) == [kind |-> kind, r |-> rows, c |-> cols]

\* The lines of src/main.cpp:137-151, in source order.
SimdLines(macros) ==
    (IF "EIGEN_VECTORIZE_SSE" \in macros THEN <<Line("SSE enabled")>> ELSE << >>)
    \o (IF "EIGEN_VECTORIZE_AVX" \in macros THEN <<Line("AVX enabled")>> ELSE << >>)
    \o (IF "EIGEN_VECTORIZE_AVX512" \in macros THEN <<Line("AVX-512 enabled")>> ELSE << >>)
    \o (IF "EIGEN_VECTORIZE_NEON" \in macros THEN <<Line("NEON enabled (ARM)")>> ELSE << >>)
    \o (IF "EIGEN_VECTORIZE" \notin macros THEN <<Line("No SIMD vectorization")>> ELSE << >>)

\* The lines of src/main.cpp:127-132.
ResultsBlock(rows, cols) ==
    << SizedLine("Matrix Size", rows, cols),
       Line("Posit Time taken"),
       Line("Float Time taken"),
       Line("Posit Mean Absolute Error"),
       Line("Float Mean Absolute Error") >>

\* The lines of src/main.cpp:109 and 113.
FloatDiagnostic(rows, cols) == SizedLine("Float result has NaN or Inf at size", rows, cols)
PositDiagnostic(rows, cols) == SizedLine("Posit input matrices are invalid at size", rows, cols)

\* What a failed assert writes before it aborts.
AssertionLine == Line("Assertion failed")

(***************************************************************************)
(* State.                                                                  *)
(***************************************************************************)
VARIABLES
    NDEBUG,             \* whether the build defines NDEBUG
    macros,             \* the vectorization macros the build defines
    mpc,                \* main(): "harness" | "start" | "sweep" | "exited"
    size,               \* main(): the loop variable i  (line 153)
    nth,                \* main(): which of the four calls of the body is next
    exit_status,        \* main(): -1 until main returns
    calls,              \* every call of benchmark made so far: <<r, c, repetitions>>
    out,                \* standard output, line by line
    err,                \* standard error, line by line
    pc,                 \* benchmark(): position in the call
    r, c, repetitions, numa, numb,      \* benchmark(): arguments
    pa, pb, fa, fb, da, db,             \* operand matrices
    pelapsed, felapsed,                 \* timing accumulators
    posit_mean_error, float_mean_error, \* error accumulators
    i,                                  \* trial counter  (line 82)
    pstart, fstart,                     \* whether the start timestamp is taken
    pmul, padd, pmin, fmul, fadd, fmin, \* "none" | "expr": expression objects
    ref, p_to_d,                        \* per-trial double matrices
    events,             \* what the current trial did, in order
    pmeasured, fmeasured, \* the sum of the durations measured in this call
    tainted,            \* a non-finite product entered an error computation
    reported            \* the numbers of the results block of this call

mainVars == <<mpc, size, nth, exit_status, calls>>
argVars == <<r, c, repetitions, numa, numb>>
operandVars == <<pa, pb, fa, fb, da, db>>
accVars == <<pelapsed, felapsed, posit_mean_error, float_mean_error>>
exprVars == <<pmul, padd, pmin, fmul, fadd, fmin>>
trialVars == <<pstart, fstart, ref, p_to_d>>
ghostVars == <<pmeasured, fmeasured, tainted, reported>>
buildVars == <<NDEBUG, macros>>
vars == <<buildVars, mainVars, out, err, pc, argVars, operandVars,
          accVars, i, exprVars, trialVars, events, ghostVars>>

NoReport == [ptime |-> [us |-> 0, div |-> 0], ftime |-> [us |-> 0, div |-> 0],
             perr |-> NaN, ferr |-> NaN, printed |-> FALSE]

\* The frame of benchmark() before any call.
NoFrame ==
    /\ pc = "idle"
    /\ r = 0 /\ c = 0 /\ repetitions = 0 /\ numa = Num(0) /\ numb = Num(0)
    /\ pa = NoMatrix /\ pb = NoMatrix /\ fa = NoMatrix /\ fb = NoMatrix
    /\ da = NoMatrix /\ db = NoMatrix
    /\ pelapsed = DefaultDuration /\ felapsed = DefaultDuration
    /\ posit_mean_error = Num(0) /\ float_mean_error = Num(0)
    /\ i = 0 /\ pstart = FALSE /\ fstart = FALSE
    /\ pmul = "none" /\ padd = "none" /\ pmin = "none"
    /\ fmul = "none" /\ fadd = "none" /\ fmin = "none"
    /\ ref = NoMatrix /\ p_to_d = NoMatrix
    /\ events = << >> /\ pmeasured = 0 /\ fmeasured = 0
    /\ tainted = FALSE /\ reported = NoReport

\* A single call of benchmark, about to be made by a test driver.
Init ==
    /\ NDEBUG \in BOOLEAN
    /\ macros = {}
    /\ mpc = "harness" /\ size = 0 /\ nth = 0 /\ exit_status = 0 - 1
    /\ calls = << >> /\ out = << >> /\ err = << >>
    /\ NoFrame

\* The program at the entry of main().
InitMain ==
    /\ NDEBUG \in BOOLEAN
    /\ macros \in Builds
    /\ mpc = "start" /\ size = 0 /\ nth = 0 /\ exit_status = 0 - 1
    /\ calls = << >> /\ out = << >> /\ err = << >>
    /\ NoFrame

(***************************************************************************)
(* benchmark()  (src/main.cpp:55-133)                                      *)
(***************************************************************************)
\* assert(e) and the library's own assertions: compiled out under NDEBUG.
AssertFails(e) == ~NDEBUG /\ ~e

\* A failed assertion: a message on standard error, then abort().
Abort ==
    /\ pc' = "aborted"
    /\ err' = err \o <<AssertionLine>>

\* A call benchmark(rows, cols, reps, a, b): a fresh frame.
Call(rows, cols, reps, a, b) ==
    /\ pc' = "enter"
    /\ r' = rows /\ c' = cols /\ repetitions' = reps /\ numa' = a /\ numb' = b
    /\ calls' = Append(calls, <<rows, cols, reps>>)
    /\ pa' = NoMatrix /\ pb' = NoMatrix /\ fa' = NoMatrix /\ fb' = NoMatrix
    /\ da' = NoMatrix /\ db' = NoMatrix
    /\ pelapsed' = DefaultDuration /\ felapsed' = DefaultDuration
    /\ posit_mean_error' = Num(0) /\ float_mean_error' = Num(0)
    /\ i' = 0 /\ pstart' = FALSE /\ fstart' = FALSE
    /\ pmul' = "none" /\ padd' = "none" /\ pmin' = "none"
    /\ fmul' = "none" /\ fadd' = "none" /\ fmin' = "none"
    /\ ref' = NoMatrix /\ p_to_d' = NoMatrix
    /\ events' = << >> /\ pmeasured' = 0 /\ fmeasured' = 0
    /\ tainted' = FALSE /\ reported' = NoReport
    /\ UNCHANGED <<buildVars, out, err>>

\* The precondition of line 58.
RepetitionsOk(reps) == reps > 0

\* Lines 58-82: the assertion, the six operand matrices and their fill, the
\* four accumulators, the loop variable.
Enter ==
    /\ pc = "enter"
    /\ IF AssertFails(RepetitionsOk(repetitions))
       THEN /\ Abort
            /\ UNCHANGED <<operandVars, accVars, i>>
       ELSE /\ pa' = Filled(r, c, ToP32(numa))
            /\ pb' = Filled(r, c, ToP32(numb))
            /\ fa' = Filled(r, c, ToFloat(numa))
            /\ fb' = Filled(r, c, ToFloat(numb))
            /\ da' = Filled(r, c, numa)
            /\ db' = Filled(r, c, numb)
            /\ pelapsed' = DefaultDuration
            /\ felapsed' = DefaultDuration
            /\ posit_mean_error' = Num(0)
            /\ float_mean_error' = Num(0)
            /\ i' = 0
            /\ pc' = "loop"
            /\ UNCHANGED err
    /\ UNCHANGED <<buildVars, mainVars, out, argVars, exprVars, trialVars,
                   events, ghostVars>>

\* Line 82: i < repetitions
LoopTest ==
    /\ pc = "loop"
    /\ pc' = IF i < repetitions THEN "pstart" ELSE "finish"
    /\ UNCHANGED <<buildVars, mainVars, out, err, argVars, operandVars, accVars,
                   i, exprVars, trialVars, events, ghostVars>>

\* Line 84: auto pstart = high_resolution_clock::now();
PStart ==
    /\ pc = "pstart"
    /\ pstart' = TRUE
    /\ events' = <<"now pstart">>
    /\ pc' = "pmul"
    /\ UNCHANGED <<buildVars, mainVars, out, err, argVars, operandVars, accVars,
                   i, exprVars, fstart, ref, p_to_d, ghostVars>>

\* Line 85: auto pmul = pa * pb;  the product expression is built (its
\* operands checked by the library's assertion), not evaluated.
PMul ==
    /\ pc = "pmul"
    /\ IF AssertFails(Conformable(pa, pb))
       THEN /\ Abort
            /\ UNCHANGED <<pmul, events>>
       ELSE /\ pmul' = "expr"
            /\ events' = Append(events, "build pmul")
            /\ pc' = "padd"
            /\ UNCHANGED err
    /\ UNCHANGED <<buildVars, mainVars, out, argVars, operandVars, accVars, i,
                   padd, pmin, fmul, fadd, fmin, trialVars, ghostVars>>

\* Line 86: volatile auto padd = pa + pb;  an expression object
PAdd ==
    /\ pc = "padd"
    /\ padd' = "expr"
    /\ events' = Append(events, "build padd")
    /\ pc' = "pmin"
    /\ UNCHANGED <<buildVars, mainVars, out, err, argVars, operandVars, accVars,
                   i, pmul, pmin, fmul, fadd, fmin, trialVars, ghostVars>>

\* Line 87: volatile auto pmin = pa - pb;  an expression object
PMin ==
    /\ pc = "pmin"
    /\ pmin' = "expr"
    /\ events' = Append(events, "build pmin")
    /\ pc' = "pend"
    /\ UNCHANGED <<buildVars, mainVars, out, err, argVars, operandVars, accVars,
                   i, pmul, padd, fmul, fadd, fmin, trialVars, ghostVars>>

\* Lines 88-89: auto pend = now(); pelapsed += pend - pstart;
PEnd ==
    /\ pc = "pend"
    /\ \E d \in Durations :
         /\ pelapsed' = DurationAdd(pelapsed, d)
         /\ pmeasured' = pmeasured + d
    /\ events' = Append(events, "now pend")
    /\ pc' = "fstart"
    /\ UNCHANGED <<buildVars, mainVars, out, err, argVars, operandVars,
                   felapsed, posit_mean_error, float_mean_error, i, exprVars,
                   trialVars, fmeasured, tainted, reported>>

\* Line 91: auto fstart = high_resolution_clock::now();
FStart ==
    /\ pc = "fstart"
    /\ fstart' = TRUE
    /\ events' = Append(events, "now fstart")
    /\ pc' = "fmul"
    /\ UNCHANGED <<buildVars, mainVars, out, err, argVars, operandVars, accVars,
                   i, exprVars, pstart, ref, p_to_d, ghostVars>>

\* Line 92: auto fmul = fa * fb;
FMul ==
    /\ pc = "fmul"
    /\ IF AssertFails(Conformable(fa, fb))
       THEN /\ Abort
            /\ UNCHANGED <<fmul, events>>
       ELSE /\ fmul' = "expr"
            /\ events' = Append(events, "build fmul")
            /\ pc' = "fadd"
            /\ UNCHANGED err
    /\ UNCHANGED <<buildVars, mainVars, out, argVars, operandVars, accVars, i,
                   pmul, padd, pmin, fadd, fmin, trialVars, ghostVars>>

\* Line 93: volatile auto fadd = fa + fb;
FAdd ==
    /\ pc = "fadd"
    /\ fadd' = "expr"
    /\ events' = Append(events, "build fadd")
    /\ pc' = "fmin"
    /\ UNCHANGED <<buildVars, mainVars, out, err, argVars, operandVars, accVars,
                   i, pmul, padd, pmin, fmul, fmin, trialVars, ghostVars>>

\* Line 94: volatile auto fmin = fa - fb;
FMin ==
    /\ pc = "fmin"
    /\ fmin' = "expr"
    /\ events' = Append(events, "build fmin")
    /\ pc' = "fend"
    /\ UNCHANGED <<buildVars, mainVars, out, err, argVars, operandVars, accVars,
                   i, pmul, padd, pmin, fmul, fadd, trialVars, ghostVars>>

\* Lines 95-96: auto fend = now(); felapsed += fend - fstart;
FEnd ==
    /\ pc = "fend"
    /\ \E d \in Durations :
         /\ felapsed' = DurationAdd(felapsed, d)
         /\ fmeasured' = fmeasured + d
    /\ events' = Append(events, "now fend")
    /\ pc' = "ref"
    /\ UNCHANGED <<buildVars, mainVars, out, err, argVars, operandVars,
                   pelapsed, posit_mean_error, float_mean_error, i, exprVars,
                   trialVars, pmeasured, tainted, reported>>

\* Line 99: Matrix<double, Dynamic, Dynamic> ref = da * db;  the product is
\* evaluated into ref.
Ref ==
    /\ pc = "ref"
    /\ IF AssertFails(Conformable(da, db))
       THEN /\ Abort
            /\ UNCHANGED <<ref, events>>
       ELSE /\ \E g \in Garbage(da, db) : ref' = EvalProduct("d", da, db, g)
            /\ events' = Append(events, "eval ref")
            /\ pc' = "convert"
            /\ UNCHANGED err
    /\ UNCHANGED <<buildVars, mainVars, out, argVars, operandVars, accVars, i,
                   exprVars, pstart, fstart, p_to_d, ghostVars>>

\* Lines 100-106: p_to_d(row, col) = pmul(row, col).toDouble();  reading the
\* coefficients of pmul evaluates the posit product.
Convert ==
    /\ pc = "convert"
    /\ \E g \in Garbage(pa, pb) :
         p_to_d' = PositToDouble(EvalProduct("p", pa, pb, ToP32(g)))
    /\ events' = events \o <<"eval pmul", "convert">>
    /\ pc' = "validate"
    /\ UNCHANGED <<buildVars, mainVars, out, err, argVars, operandVars, accVars,
                   i, exprVars, pstart, fstart, ref, ghostVars>>

\* Lines 108-115: the two checks; fmul.allFinite() evaluates the float
\* product.
Validate ==
    /\ pc = "validate"
    /\ events' = events \o <<"eval fmul", "validate">>
    /\ \E g \in Garbage(fa, fb) :
         IF ~AllFinite(EvalProduct("f", fa, fb, ToFloat(g)))
         THEN /\ err' = Append(err, FloatDiagnostic(r, c))
              /\ pc' = "returned"
         ELSE IF ~AllFinite(pa) \/ ~AllFinite(pb)
         THEN /\ err' = Append(err, PositDiagnostic(r, c))
              /\ pc' = "returned"
         ELSE /\ pc' = "errors"
              /\ UNCHANGED err
    /\ UNCHANGED <<buildVars, mainVars, out, argVars, operandVars, accVars, i,
                   exprVars, trialVars, ghostVars>>

\* Lines 117-121: the two mean absolute errors of the trial, accumulated;
\* fmul.cast<double>() evaluates the float product again.  Then ++i.
Errors ==
    /\ pc = "errors"
    /\ events' = events \o <<"eval fmul", "errors">>
    /\ \E g \in Garbage(fa, fb) :
         LET fm == EvalProduct("f", fa, fb, ToFloat(g))
             posit_abs_error == CwiseAbs(MatSub(ref, p_to_d))
             float_abs_error == CwiseAbs(MatSub(ref, CastDouble(fm)))
         IN /\ posit_mean_error' =
                  IeeeAdd(posit_mean_error, Mean(posit_abs_error), DoubleExact)
            /\ float_mean_error' =
                  IeeeAdd(float_mean_error, Mean(float_abs_error), DoubleExact)
            /\ tainted' = (tainted \/ ~AllFinite(ref) \/ ~AllFinite(p_to_d)
                                   \/ ~AllFinite(fm))
    /\ i' = i + 1
    /\ pc' = "loop"
    /\ UNCHANGED <<buildVars, mainVars, out, err, argVars, operandVars,
                   pelapsed, felapsed, exprVars, trialVars, pmeasured,
                   fmeasured, reported>>

\* Lines 122-133: the four divisions, the results block, the return.
Finish ==
    /\ pc = "finish"
    /\ pelapsed' = DurationDiv(pelapsed, repetitions)
    /\ felapsed' = DurationDiv(felapsed, repetitions)
    /\ posit_mean_error' = IeeeDivInt(posit_mean_error, repetitions)
    /\ float_mean_error' = IeeeDivInt(float_mean_error, repetitions)
    /\ out' = out \o ResultsBlock(r, c)
    /\ \E gp \in Indeterminate, gf \in Indeterminate :
         reported' = [ptime |-> Count(pelapsed', gp),
                      ftime |-> Count(felapsed', gf),
                      perr |-> posit_mean_error',
                      ferr |-> float_mean_error',
                      printed |-> TRUE]
    /\ pc' = "returned"
    /\ UNCHANGED <<buildVars, mainVars, err, argVars, operandVars, i, exprVars,
                   trialVars, events, pmeasured, fmeasured, tainted>>

Benchmark ==
    \/ Enter \/ LoopTest
    \/ PStart \/ PMul \/ PAdd \/ PMin \/ PEnd
    \/ FStart \/ FMul \/ FAdd \/ FMin \/ FEnd
    \/ Ref \/ Convert \/ Validate \/ Errors
    \/ Finish

(***************************************************************************)
(* The single-call driver.                                                 *)
(***************************************************************************)
HarnessCall ==
    /\ mpc = "harness"
    /\ pc = "idle"
    /\ \E rows \in 1..MaxDim, cols \in 1..MaxDim, reps \in (0 - 1)..MaxReps,
          a \in FillValues, b \in FillValues :
         Call(rows, cols, reps, a, b)
    /\ UNCHANGED <<mpc, size, nth, exit_status>>

(***************************************************************************)
(* main()  (src/main.cpp:135-162)                                          *)
(***************************************************************************)
\* Lines 137-151, then int i{ 10 } of line 153.
MainStart ==
    /\ mpc = "start"
    /\ out' = out \o SimdLines(macros)
    /\ mpc' = "sweep"
    /\ size' = SweepFirst
    /\ nth' = 0
    /\ UNCHANGED <<buildVars, exit_status, calls, err, pc, argVars,
                   operandVars, accVars, i, exprVars, trialVars, events,
                   ghostVars>>

\* i <= 50 of line 153.
SweepContinues(n) == n <= SweepLast

\* A sweep that would skip every other size.
SweepNextSkips(n) == n + SweepStep + SweepStep

\* i += 10 of line 153.
SweepNext(n) == n + SweepStep

\* Lines 153-159: the next of the four calls of the loop body; after the
\* fourth, i += 10.  A call is made once the one before it has returned.
MainCall ==
    /\ mpc = "sweep"
    /\ pc \in {"idle", "returned"}
    /\ SweepContinues(size)
    /\ Call(size, size, SweepReps, SweepFills[nth + 1][1], SweepFills[nth + 1][2])
    /\ nth' = (nth + 1) % Len(SweepFills)
    /\ size' = IF nth + 1 = Len(SweepFills) THEN SweepNext(size) ELSE size
    /\ UNCHANGED <<mpc, exit_status>>

\* Line 161: return 0;
MainReturn ==
    /\ mpc = "sweep"
    /\ pc \in {"idle", "returned"}
    /\ ~SweepContinues(size)
    /\ mpc' = "exited"
    /\ exit_status' = 0
    /\ UNCHANGED <<buildVars, size, nth, calls, out, err, pc, argVars,
                   operandVars, accVars, i, exprVars, trialVars, events,
                   ghostVars>>

Next == HarnessCall \/ Benchmark

NextMain == MainStart \/ MainCall \/ MainReturn \/ Benchmark

Spec == Init /\ [][Next]_vars

SpecMain == InitMain /\ [][NextMain]_vars

(***************************************************************************)
(* Properties.                                                             *)
(***************************************************************************)
\* A trial of the current call has written a non-finite diagnostic.
Detected ==
    \E n \in 1..Len(err) :
        err[n] \in {FloatDiagnostic(r, c), PositDiagnostic(r, c)}

\* The call has allocated and filled its operands.
Entered == pc \notin {"idle", "enter"} /\ pa # NoMatrix

\* The current trial did e, and did it after a and before b.
Did(e) == \E n \in 1..Len(events) : events[n] = e
DidBetween(e, a, b) ==
    \E k, n, m \in 1..Len(events) :
        /\ k < n /\ n < m
        /\ events[k] = a /\ events[n] = e /\ events[m] = b
DidBefore(a, b) ==
    \E k, n \in 1..Len(events) : k < n /\ events[k] = a /\ events[n] = b

\* C1 (as claimed, for every shape): in a call with repetitions > 0 whose
\* posit inputs or float product hold a non-finite value, no trial gets
\* past the validation: the call neither aborts nor computes an error nor
\* divides an accumulator nor prints a results block, and when it has
\* ended it has written exactly one diagnostic naming rows x cols.
NonFiniteCase ==
    /\ Entered
    /\ repetitions > 0
    /\ \/ ~AllFinite(pa)
       \/ ~AllFinite(pb)
       \/ Conformable(fa, fb) /\ ~AllFinite(EvalProduct("f", fa, fb, NaN))

EarlyReturnOnly ==
    /\ pc \notin {"errors", "finish", "aborted"}
    /\ i = 0
    /\ posit_mean_error = Num(0) /\ float_mean_error = Num(0)
    /\ pelapsed.div = 1 /\ felapsed.div = 1
    /\ out = << >>
    /\ pc = "returned" => err \in {<<FloatDiagnostic(r, c)>>, <<PositDiagnostic(r, c)>>}
    /\ pc # "returned" => err = << >>

C1_EarlyReturn == NonFiniteCase => EarlyReturnOnly

\* C1 restricted to square shapes (rows = cols), where the product is
\* defined: the same statement.
C1_EarlyReturn_Square == (NonFiniteCase /\ r = c) => EarlyReturnOnly

C1_Witness == NonFiniteCase /\ r = c /\ pc = "returned" /\ Len(err) = 1

\* C2: main calls benchmark(i, i, 5, ..) four times for each of
\* i = 10, 20, 30, 40, 50 in this order, no call of the sweep is skipped and
\* none aborts, and main returns 0 after the last call and not before.
ExpectedCalls == [n \in 1..20 |-> <<10 * (((n - 1) \div 4) + 1),
                                    10 * (((n - 1) \div 4) + 1), 5>>]

C2_Sweep ==
    /\ Len(calls) <= Len(ExpectedCalls)
    /\ \A n \in 1..Len(calls) : calls[n] = ExpectedCalls[n]
    /\ pc # "aborted"
    /\ mpc = "exited" => (calls = ExpectedCalls /\ exit_status = 0)
    /\ mpc # "exited" => exit_status = 0 - 1

C2_Witness == mpc = "exited" /\ Len(calls) = 20 /\ exit_status = 0

\* C3 (as claimed): a call with repetitions <= 0 never gets past the
\* assertion of its entry: it allocates no matrix, runs no trial, divides
\* no accumulator and prints nothing.
C3_Rejected ==
    (pc # "idle" /\ repetitions <= 0) =>
        /\ pc \in {"enter", "aborted"}
        /\ pa = NoMatrix /\ pb = NoMatrix /\ fa = NoMatrix /\ fb = NoMatrix
        /\ da = NoMatrix /\ db = NoMatrix
        /\ pelapsed.div = 1 /\ felapsed.div = 1
        /\ out = << >>

C4_FiniteProducts_Square == (reported.printed /\ r = c) => ~tainted

C4_Witness == reported.printed /\ r = c /\ repetitions > 0 /\ ~tainted

\* C5 (as claimed, for every shape): the operands are rows x cols matrices
\* of a and b, their product is defined, and with integer fill values every
\* coefficient of the product is a * b * cols, in double (ref), in posit
\* (p_to_d) and in float.
C5_Product ==
    Entered =>
        /\ pa = Filled(r, c, ToP32(numa)) /\ pb = Filled(r, c, ToP32(numb))
        /\ fa = Filled(r, c, ToFloat(numa)) /\ fb = Filled(r, c, ToFloat(numb))
        /\ da = Filled(r, c, numa) /\ db = Filled(r, c, numb)
        /\ Conformable(pa, pb) /\ Conformable(fa, fb) /\ Conformable(da, db)
        /\ (numa.k = "num" /\ numb.k = "num") =>
              /\ Did("eval ref") => ref = Filled(r, c, Num(numa.v * numb.v * c))
              /\ Did("convert") => p_to_d = Filled(r, c, Num(numa.v * numb.v * c))
              /\ EvalProduct("f", fa, fb, NaN) = Filled(r, c, Num(numa.v * numb.v * c))

\* C6 (as claimed): the times a call with repetitions > 0 reports are the
\* sums of the durations it measured, divided by repetitions.
C6_MeanTime ==
    (reported.printed /\ repetitions > 0) =>
        /\ reported.ptime = [us |-> pmeasured, div |-> repetitions]
        /\ reported.ftime = [us |-> fmeasured, div |-> repetitions]

\* C7 (as claimed, for every shape): a call with repetitions > 0 that ends
\* without having detected a non-finite value has returned, has written
\* exactly the results block, and nothing on standard error; and nothing is
\* on standard output before all trials have run and the accumulators are
\* divided.
C7_ResultsBlock ==
    /\ (repetitions > 0 /\ pc \in {"returned", "aborted"} /\ ~Detected) =>
          /\ pc = "returned"
          /\ out = ResultsBlock(r, c)
          /\ err = << >>
    /\ (repetitions > 0 /\ out # << >>) =>
          /\ i = repetitions
          /\ pelapsed.div = repetitions /\ felapsed.div = repetitions
          /\ pc = "returned"

\* C7 restricted to square shapes.
C7_ResultsBlock_Square == r = c => C7_ResultsBlock

C7_Witness == repetitions > 0 /\ r = c /\ pc = "returned" /\ out = ResultsBlock(r, c)

\* C8 (as claimed): once main is past its startup lines, standard output
\* begins with exactly one line about the SIMD extension.
SimdKinds == {"SSE enabled", "AVX enabled", "AVX-512 enabled",
              "NEON enabled (ARM)", "No SIMD vectorization"}

C8_OneSimdLine ==
    mpc \in {"sweep", "exited"} =>
        Cardinality({n \in 1..Len(out) : out[n].kind \in SimdKinds}) = 1

\* C9 (as claimed): once the posit end timestamp of a trial is taken, the
\* posit product, sum and difference have been computed between the two
\* posit timestamps; likewise for float; the posit interval ends before the
\* float interval begins; the reference product, the conversion, the
\* validation and the error computation come after both, in this order.
C9_TimedOperations ==
    /\ Did("now pend") =>
          /\ DidBetween("eval pmul", "now pstart", "now pend")
          /\ DidBetween("eval padd", "now pstart", "now pend")
          /\ DidBetween("eval pmin", "now pstart", "now pend")
    /\ Did("now fend") =>
          /\ DidBetween("eval fmul", "now fstart", "now fend")
          /\ DidBetween("eval fadd", "now fstart", "now fend")
          /\ DidBetween("eval fmin", "now fstart", "now fend")
    /\ Did("now fstart") => DidBefore("now pend", "now fstart")
    /\ \A e \in {"eval ref", "convert", "validate", "errors"} :
          Did(e) => DidBefore("now fend", e)
    /\ Did("convert") => DidBefore("eval ref", "convert")
    /\ Did("validate") => DidBefore("convert", "validate")
    /\ Did("errors") => DidBefore("validate", "errors")

\* What does hold of a trial: the timed intervals only build the six
\* expression objects, in order, and every evaluation comes after both.
C9_TimedBuildsOnly ==
    /\ Did("now pend") =>
          /\ DidBetween("build pmul", "now pstart", "now pend")
          /\ DidBetween("build padd", "now pstart", "now pend")
          /\ DidBetween("build pmin", "now pstart", "now pend")
    /\ Did("now fend") =>
          /\ DidBetween("build fmul", "now fstart", "now fend")
          /\ DidBetween("build fadd", "now fstart", "now fend")
          /\ DidBetween("build fmin", "now fstart", "now fend")
    /\ Did("now fstart") => DidBefore("now pend", "now fstart")
    /\ \A e \in {"eval ref", "eval pmul", "eval fmul", "convert", "validate", "errors"} :
          Did(e) => DidBefore("now fend", e)
    /\ ~Did("eval padd") /\ ~Did("eval pmin") /\ ~Did("eval fadd") /\ ~Did("eval fmin")

C10_FirstTrialOnly_Square == (Detected /\ r = c) => (i = 0 /\ posit_mean_error = Num(0) /\ float_mean_error = Num(0))

\* C10, the operands: once filled, no step of the call changes an operand
\* matrix (for every shape).
C10_OperandsUntouched ==
    [][(pc # "enter" /\ pc' # "enter") => operandVars' = operandVars]_vars

=============================================================================
